---- MODULE Spec2Model ----
(***************************************************************************)
(* RPC correlation layer of the port backend (src/src/mixins/readonly.ts,  *)
(* lines 1008-1142): request(), the timeout callback it schedules,         *)
(* handleResponse(), attach() and the process-wide executors table.        *)
(*                                                                         *)
(* JavaScript values are records with a field t (the value's kind);        *)
(* objects carry their properties in props.  JavaScript strings that the   *)
(* code slices or concatenates are sequences of pieces.                    *)
(***************************************************************************)
EXTENDS Integers, Sequences, FiniteSets, TLC

VARIABLES
    executors,  \* the Map<string, Executor>, as a set of entries keyed by id
    calls,      \* the calls issued so far: promise, timer and captured data
    posted,     \* the messages handed to port.postMessage, in order
    listeners,  \* the listeners registered on the port, in order
    last,       \* what the most recent message delivery did
    port,       \* the port: its subscription shape and what attach/detach did
    received,   \* the arguments a plain handler got in the most recent delivery
    files,      \* the local file system: the bytes of each existing path
    done,       \* the most recent call on the local file system and how it ended
    remote,     \* the other end of the port: the attached file system, the
                \* dispatcher's bookkeeping and the replies it has sent
    stream,     \* the stream made by createReadStream / createWriteStream
    proxy       \* a PortFile and what its most recent operation did

rpcVars ==
    <<executors, calls, posted, listeners, last, port, received, remote,
      stream, proxy>>

fsVars == <<files, done>>

vars ==
    <<executors, calls, posted, listeners, last, port, received, files, done,
      remote, stream, proxy>>

-----------------------------------------------------------------------------
(* Bounds of the model.                                                    *)

MaxCalls == 2

\* the bytes in the file a read stream reads, the chunks a write stream gets
StreamFileSize == 2

MaxWrites == 2

\* the largest offset in the file behind a PortFile
MaxPosition == 3

ShortTimeout == 50

-----------------------------------------------------------------------------
(* JavaScript values.                                                      *)

JSUndefined == [t |-> "undefined"]

JSNull == [t |-> "null"]

JSNumber(n) == [t |-> "number", v |-> n]

JSObject(props) == [t |-> "object", props |-> props]

\* typeof: null reports "object"
TypeOf(v) == IF v.t = "null" THEN "object" ELSE v.t

TypeError == JSObject([name |-> "TypeError"])

\* e.stack += stack, in strict mode: a TypeError unless e is an object; a
\* missing stack property reads as undefined and is stringified
AppendStack(e, stack) ==
    IF e.t # "object" THEN [ok |-> FALSE, value |-> TypeError]
    ELSE [ok |-> TRUE,
          value |-> [e EXCEPT !.props =
                        [k \in DOMAIN e.props \cup {"stack"} |->
                            IF k = "stack"
                            THEN (IF "stack" \in DOMAIN e.props
                                  THEN e.props.stack
                                  ELSE <<"undefined">>) \o stack
                            ELSE e.props[k]]]]

-----------------------------------------------------------------------------
(* Promises: resolve and reject settle a pending promise and are no-ops on *)
(* a settled one.                                                          *)

PendingPromise == [kind |-> "pending", value |-> JSUndefined, by |-> "none"]

\* resolve / reject that would replace the outcome of a settled promise
SettleOverwrites(p, kind, value, by) ==
    [kind |-> kind, value |-> value, by |-> by]

Settle(p, kind, value, by) ==
    IF p.kind = "pending"
    THEN [kind |-> kind, value |-> value, by |-> by]
    ELSE p

-----------------------------------------------------------------------------
(* The executors table.                                                    *)

ExecutorsHas(ex, id) == \E e \in ex : e.id = id

ExecutorsGet(ex, id) == CHOOSE e \in ex : e.id = id

ExecutorsSet(ex, id, call, fs) ==
    {e \in ex : e.id # id} \cup {[id |-> id, call |-> call, fs |-> fs]}

\* executors.clear() in the place of executors.delete(id)
ExecutorsClear(ex, id) == {}

ExecutorsDelete(ex, id) == {e \in ex : e.id # id}

-----------------------------------------------------------------------------
(* Type guards.  A guard evaluates to "true" or "false", or "TypeError"    *)
(* when the in operator is applied to null.                                *)

isFileData(value) ==
    IF TypeOf(value) # "object" THEN "false"
    ELSE IF value.t = "null" THEN "TypeError"
    ELSE IF {"fd", "path", "position"} \subseteq DOMAIN value.props THEN "true"
    ELSE "false"

isMessage(arg) ==
    IF TypeOf(arg) # "object" THEN "false"
    ELSE IF arg.t = "null" THEN "TypeError"
    ELSE IF "_zenfs" \notin DOMAIN arg.props THEN "false"
    ELSE IF arg.props._zenfs THEN "true"
    ELSE "false"

-----------------------------------------------------------------------------
(* request(): correlation id, captured stack, timeout.                     *)

DefaultTimeout == 1000

\* Number.prototype.toString(16) of a Math.random() result: "0." followed by
\* the hexadecimal digits of the fraction
ToString16(fraction) == <<"0", ".">> \o fraction

\* String.prototype.slice(start)
Slice(s, start) == SubSeq(s, start + 1, Len(s))

IdSliceStart == 10

\* Math.random().toString(16).slice(10): nothing consults the table
GenId(fraction) == Slice(ToString16(fraction), IdSliceStart)

\* new Error().stack is "Error:" followed by the frames of the caller
NewErrorStack == <<"E", "r", "r", "o", "r", ":", "\n    at caller">>

\* new Error().stack.slice('Error:'.length)
CapturedStack == Slice(NewErrorStack, Len(<<"E", "r", "r", "o", "r", ":">>))

\* new ApiError(code, message): the error object, with the stack of its creation
ApiError(code, message) ==
    JSObject([code |-> code, message |-> message, stack |-> <<"ApiError">>])

\* new ApiError(ErrorCode.EIO, `RPC Failed (#${id})`); error.stack += stack
TimeoutError(id, stack) ==
    AppendStack(ApiError("EIO", <<"RPC Failed (#", id, ")">>), stack).value

\* the message request() posts: {...request, _zenfs: true, id, stack}
RequestMessage(req, id, stack) ==
    JSObject([scope |-> req.scope, method |-> req.method, args |-> req.args,
              _zenfs |-> TRUE, id |-> id, stack |-> stack])

\* mutant: the message is sent a second time
PostMessageTwice(sent, message) == Append(Append(sent, message), message)

\* port.postMessage(message): the message is handed to the channel, once
PostMessage(sent, message) == Append(sent, message)

\* { port, timeout = 1000, fs }: the default applies when timeout is undefined
EffectiveTimeout(timeout) ==
    IF timeout.t = "undefined" THEN DefaultTimeout ELSE timeout.v

\* the record of a call: what the promise executor captured, its promise and
\* the timer started by setTimeout
NewCall(id, stack, fs, timeout) ==
    [id |-> id, stack |-> stack, fs |-> fs, timeout |-> timeout,
     remaining |-> timeout, timer |-> "armed", promise |-> PendingPromise]

\* mutant: the callback is run without waiting for the delay
TimerDueAtOnce(call) == call.timer = "armed"

\* setTimeout(callback, timeout): the callback runs once the delay has elapsed
TimerDue(call) == call.timer = "armed" /\ call.remaining = 0

\* mutant: the callback builds the error and never calls reject
TimeoutCallbackNoReject(call) == [call EXCEPT !.timer = "done"]

\* the timeout callback: reject(error); the executors table is not touched
TimeoutCallback(call) ==
    [call EXCEPT !.timer = "done",
                 !.promise = Settle(@, "rejected", TimeoutError(call.id, call.stack),
                                    "timer")]

-----------------------------------------------------------------------------
(* handleResponse().                                                       *)

\* new ApiError(ErrorCode.EIO, 'Invalid RPC id:' + id); error.stack += stack
InvalidIdError(id, stack) ==
    AppendStack(ApiError("EIO", <<"Invalid RPC id:", id>>), stack).value

\* new PortFile(fs, fd, path, position)
PortFile(fs, fd, path, position) ==
    [t |-> "object", class |-> "PortFile",
     props |-> [fs |-> fs, fd |-> fd, path |-> path, position |-> position]]

\* results of one handleResponse call
Outcome(ex, cs, result, error) ==
    [executors |-> ex, calls |-> cs, result |-> result, error |-> error]

\* resolve / reject of the promise captured in an executor
SettleCall(cs, c, kind, value) ==
    [cs EXCEPT ![c].promise = Settle(@, kind, value, "response")]

\* mutant: reject(value) without appending the Response's stack
RejectBranchNoStack(ex, cs, entry, response) ==
    Outcome(ExecutorsDelete(ex, entry.id),
            SettleCall(cs, entry.call, "rejected", response.props.value),
            "returned", JSUndefined)

\* if (error) { e.stack += stack; reject(e); executors.delete(id); return response }
RejectBranch(ex, cs, entry, response) ==
    LET e == AppendStack(response.props.value, response.props.stack) IN
    IF ~e.ok THEN Outcome(ex, cs, "threw", e.value)
    ELSE Outcome(ExecutorsDelete(ex, entry.id),
                 SettleCall(cs, entry.call, "rejected", e.value),
                 "returned", JSUndefined)

\* mutant: the proxy is built without the descriptor's position
FileBranchLosesPosition(ex, cs, entry, response) ==
    LET value == response.props.value IN
    Outcome(ExecutorsDelete(ex, entry.id),
            SettleCall(cs, entry.call, "resolved",
                       PortFile(entry.fs, value.props.fd, value.props.path, 0)),
            "returned", JSUndefined)

\* if (isFileData(value)) { resolve(new PortFile(fs, fd, path, position)); ... }
FileBranch(ex, cs, entry, response) ==
    LET value == response.props.value IN
    Outcome(ExecutorsDelete(ex, entry.id),
            SettleCall(cs, entry.call, "resolved",
                       PortFile(entry.fs, value.props.fd, value.props.path,
                                value.props.position)),
            "returned", JSUndefined)

\* resolve(value); executors.delete(id); return response
ValueBranch(ex, cs, entry, response) ==
    Outcome(ExecutorsDelete(ex, entry.id),
            SettleCall(cs, entry.call, "resolved", response.props.value),
            "returned", JSUndefined)

\* mutant: the executor is taken from the table without regard to the id
LookupAnyExecutor(ex, id) == CHOOSE e \in ex : TRUE

\* const { resolve, reject, fs } = executors.get(id)
LookupExecutor(ex, id) == ExecutorsGet(ex, id)

\* mutant: a Response with an unknown id is dropped silently
UnknownIdDropped(ex, cs, response) == Outcome(ex, cs, "ignored", JSUndefined)

\* if (!executors.has(id)) { throw ... }
UnknownId(ex, cs, response) ==
    Outcome(ex, cs, "threw", InvalidIdError(response.props.id, response.props.stack))

\* the part of handleResponse after the isMessage guard
HandleTagged(ex, cs, response) ==
    IF ~ExecutorsHas(ex, response.props.id) THEN UnknownId(ex, cs, response)
    ELSE LET entry == LookupExecutor(ex, response.props.id)
             file  == isFileData(response.props.value)
         IN  IF response.props.error THEN RejectBranch(ex, cs, entry, response)
             ELSE IF file = "TypeError" THEN Outcome(ex, cs, "threw", TypeError)
             ELSE IF file = "true" THEN FileBranch(ex, cs, entry, response)
             ELSE ValueBranch(ex, cs, entry, response)

handleResponse(ex, cs, response) ==
    LET tagged == isMessage(response) IN
    IF tagged = "TypeError" THEN Outcome(ex, cs, "threw", TypeError)
    ELSE IF tagged = "false" THEN Outcome(ex, cs, "ignored", JSUndefined)
    ELSE HandleTagged(ex, cs, response)

-----------------------------------------------------------------------------
(* attach(): the listener registered on the port.                          *)

\* the listener handing the delivered message to the handler as it came
UnwrapNever(message) == [ok |-> TRUE, value |-> message]

\* handler('data' in message ? message.data : message)
Unwrap(message) ==
    IF message.t # "object" THEN [ok |-> FALSE, value |-> TypeError]
    ELSE IF "data" \in DOMAIN message.props THEN [ok |-> TRUE, value |-> message.props.data]
    ELSE [ok |-> TRUE, value |-> message]

\* a MessageEvent carrying the value in its data field
MessageEvent(value) == JSObject([data |-> value])

\* the three kinds of Port: an emitter with on/off, an event target with
\* addEventListener/removeEventListener, or only an assignable onmessage
PortShapes == {"on", "addEventListener", "onmessage"}

\* the properties a port of each kind has
PortProps(shape) ==
    IF shape = "on" THEN {"postMessage", "on", "off"}
    ELSE IF shape = "addEventListener"
         THEN {"postMessage", "addEventListener", "removeEventListener"}
    ELSE {"postMessage", "onmessage"}

\* 'on' in port ? 'on' : 'addEventListener'
AttachMethod(shape) ==
    IF "on" \in PortProps(shape) THEN "on" ELSE "addEventListener"

\* 'off' in port ? 'off' : 'removeEventListener'
DetachMethod(shape) ==
    IF "off" \in PortProps(shape) THEN "off" ELSE "removeEventListener"

\* the arrow function attach() and detach() build around the handler: a new
\* function object on every call, distinct from every registered one
NewClosure(ls, handler) ==
    [id |-> 1 + Len(ls), handler |-> handler]

\* port.on / port.addEventListener('message', listener)
AddListener(ls, listener) == Append(ls, listener)

\* port.off / port.removeEventListener('message', listener): removes the
\* registered listener that is this very function object
RemoveListener(ls, listener) == SelectSeq(ls, LAMBDA l : l # listener)

\* calling port[method](...): a TypeError when the port has no such method
CallPortMethod(shape, method, ls, result) ==
    IF method \in PortProps(shape)
    THEN [listeners |-> result, error |-> JSUndefined]
    ELSE [listeners |-> ls, error |-> TypeError]

\* attach(port, handler), lines 1132-1136
AttachResult(shape, ls, handler) ==
    CallPortMethod(shape, AttachMethod(shape), ls,
                   AddListener(ls, NewClosure(ls, handler)))

\* detach(port, handler), lines 1138-1142
DetachResult(shape, ls, handler) ==
    CallPortMethod(shape, DetachMethod(shape), ls,
                   RemoveListener(ls, NewClosure(ls, handler)))

Handlers == {"handleResponse", "h"}

\* listeners registered on one port at most
MaxListeners == 2

Subscribed(ls, handler) == \E i \in DOMAIN ls : ls[i].handler = handler

NewPort(shape) ==
    [shape |-> shape, error |-> JSUndefined, ops |-> [h \in Handlers |-> "none"]]

-----------------------------------------------------------------------------
(* The server-side dispatcher (attachFS): it binds one file system to the  *)
(* other end of the port, runs each Request it receives on that file       *)
(* system and answers it.                                                  *)

\* the dispatcher's state: the bound file system, the fd table, what each
\* handled Request did on the file system, the replies sent and those of
\* them the port has delivered to the stub's side
NewRemote(fs) ==
    [fs |-> fs, fds |-> {}, handled |-> {}, replies |-> <<>>, delivered |-> {}]

\* an error of the file system, as it is serialized into a Response
SerializedError(code) == JSObject([code |-> code, stack |-> <<"RemoteError">>])

\* the named method called directly on the bound file system
FsCall(fs, method, args) ==
    IF args[1] \notin DOMAIN fs
    THEN [fs |-> fs, threw |-> TRUE, handle |-> FALSE, value |-> SerializedError("ENOENT")]
    ELSE IF method = "stat"
    THEN [fs |-> fs, threw |-> FALSE, handle |-> FALSE,
          value |-> JSObject([size |-> Len(fs[args[1]])])]
    ELSE IF method = "unlink"
    THEN [fs |-> [p \in DOMAIN fs \ {args[1]} |-> fs[p]], threw |-> FALSE,
          handle |-> FALSE, value |-> JSUndefined]
    ELSE [fs |-> fs, threw |-> FALSE, handle |-> TRUE,
          value |-> [path |-> args[1], position |-> 0]]

\* the fd a newly opened handle is registered under
NextFd(fds) == 3 + Cardinality(fds)

\* the HandleDescriptor sent in the place of a file handle
HandleDescriptor(fd, handle) ==
    JSObject([fd |-> fd, path |-> handle.path, position |-> handle.position])

\* the Response to a Request: its id, scope and method, the outcome
ReplyMessage(req, error, value) ==
    JSObject([_zenfs |-> TRUE, scope |-> req.props.scope,
              method |-> req.props.method, id |-> req.props.id,
              stack |-> <<"\n    at remote">>, error |-> error, value |-> value])

\* a dispatcher that lets the exception of a failed operation escape
RepliesOnSuccessOnly(req, out, fds) ==
    IF out.threw THEN <<>>
    ELSE IF out.handle
         THEN <<ReplyMessage(req, FALSE, HandleDescriptor(NextFd(fds), out.value))>>
    ELSE <<ReplyMessage(req, FALSE, out.value)>>

\* the replies the dispatcher sends for one Request whose operation ended as
\* out: the serialized error with error = true on failure, the
\* HandleDescriptor for a file handle, the raw value otherwise
Replies(req, out, fds) ==
    IF out.threw THEN <<ReplyMessage(req, TRUE, out.value)>>
    ELSE IF out.handle
         THEN <<ReplyMessage(req, FALSE, HandleDescriptor(NextFd(fds), out.value))>>
    ELSE <<ReplyMessage(req, FALSE, out.value)>>

\* the dispatcher's handling of the i-th posted Request
Dispatch(r, i, req) ==
    LET out == FsCall(r.fs, req.props.method, req.props.args)
        sent == Replies(req, out, r.fds)
    IN  [r EXCEPT
           !.fs = out.fs,
           !.fds = IF ~out.threw /\ out.handle
                   THEN @ \cup {[fd |-> NextFd(r.fds), path |-> out.value.path,
                                 position |-> out.value.position]}
                   ELSE @,
           !.handled = @ \cup {[request |-> i, threw |-> out.threw,
                                handle |-> out.handle, value |-> out.value]},
           !.replies = @ \o [k \in 1..Len(sent) |-> [for |-> i, message |-> sent[k]]]]

-----------------------------------------------------------------------------
(* The Readonly mixin (lines 12-95).  A file system's state is a function  *)
(* from its existing paths to their bytes.                                 *)

\* new ErrnoError(Errno.EROFS)
ErrnoError(code) == JSObject([name |-> "ErrnoError", code |-> code])

\* the methods ReadonlyFS overrides; each also has a Sync variant
ReadonlyMethods ==
    {"rename", "createFile", "unlink", "rmdir", "mkdir", "link", "sync"}

\* an override that lets the call through and removes its first path
ReadonlyFSWrites(fs, method, args) ==
    [fs |-> [p \in DOMAIN fs \ {args[1]} |-> fs[p]],
     threw |-> FALSE, value |-> JSUndefined]

\* the body of every override: throw new ErrnoError(Errno.EROFS); the
\* arguments are unused and the wrapped class is not called
ReadonlyFS(fs, method, args) ==
    [fs |-> fs, threw |-> TRUE, value |-> ErrnoError("EROFS")]

\* metadata() handing on what the wrapped class reports
MetadataOfBase(base) == base

\* metadata(): { ...super.metadata(), readonly: true }
ReadonlyMetadata(base) ==
    [k \in DOMAIN base \cup {"readonly"} |->
        IF k = "readonly" THEN TRUE ELSE base[k]]

\* how a call ends: an async method turns a throw into a rejected promise
CallEnds(sync, threw) ==
    IF sync THEN (IF threw THEN "threw" ELSE "returned")
    ELSE (IF threw THEN "rejected" ELSE "resolved")

-----------------------------------------------------------------------------
(* The Remote File Handle Proxy (PortFile, spec 4.3).  The record holds    *)
(* the proxy, the Requests it has put on the channel, the handle in the    *)
(* dispatcher's fd table (its position, the file's size, whether it is     *)
(* open) and what the most recent operation did.                           *)

NoProxy ==
    [state |-> "none", file |-> JSUndefined, descriptor |-> JSUndefined,
     sent |-> <<>>, remote |-> [open |-> FALSE, position |-> 0, size |-> 0],
     op |-> "none", from |-> 0, n |-> 0, result |-> "none"]

\* the proxy made from a HandleDescriptor, over a file of the given size
NewProxy(descriptor, size) ==
    [NoProxy EXCEPT
       !.state = "open",
       !.descriptor = descriptor,
       !.file = PortFile("portfs1", descriptor.props.fd, descriptor.props.path,
                         descriptor.props.position),
       !.remote = [open |-> TRUE, position |-> descriptor.props.position,
                   size |-> size]]

\* a proxy that forgets to move its cached position
KeepPosition(file, n) == file

\* the cached position after n bytes were read or written
Advance(file, n) == [file EXCEPT !.props.position = @ + n]

\* the bytes a read or write of length at offset from transfers
Transferred(method, h, from, length) ==
    IF method = "write" THEN length
    ELSE IF method = "read"
    THEN (IF from + length <= h.size THEN length
          ELSE IF from <= h.size THEN h.size - from ELSE 0)
    ELSE 0

\* the file-scope method on the dispatcher's handle
FileCall(h, method, from, length) ==
    LET n == Transferred(method, h, from, length) IN
    IF method = "close" THEN [h EXCEPT !.open = FALSE]
    ELSE IF method \in {"read", "write"}
    THEN [h EXCEPT !.position = from + n,
                   !.size = IF from + n > @ THEN from + n ELSE @]
    ELSE h

\* an operation forwarded as engine.call({scope: "file", fd, method, args}):
\* outcome "ok" is a success Response, "error" an error Response of an
\* operation that failed, "timeout" a Response that did not come in time
\* for an operation that was nevertheless carried out
ProxyForward(p, method, length, outcome) ==
    LET from == p.file.props.position
        fails == outcome = "error" \/ ~p.remote.open
        n == Transferred(method, p.remote, from, length)
        p1 == [p EXCEPT
                 !.sent = Append(@, [scope |-> "file", fd |-> p.file.props.fd,
                                     method |-> method,
                                     args |-> <<length, from>>]),
                 !.op = method, !.from = from, !.n = 0,
                 !.result = "rejected"]
        p2 == [p1 EXCEPT !.remote = FileCall(@, method, from, length)]
    IN  IF fails THEN p1
        ELSE IF outcome = "timeout" THEN p2
        ELSE [p2 EXCEPT
                !.result = "fulfilled", !.n = n,
                !.file = IF method \in {"read", "write"} THEN Advance(@, n) ELSE @,
                !.state = IF method = "close" THEN "closed" ELSE @]

\* a proxy that forwards every operation, closed or not
ProxyAlwaysForwards(p, method, length, outcome) ==
    ProxyForward(p, method, length, outcome)

\* an operation on the proxy: after a successful close it fails locally
ProxyCall(p, method, length, outcome) ==
    IF p.state = "closed"
    THEN [p EXCEPT !.op = method, !.from = p.file.props.position, !.n = 0,
                   !.result = "EBADF"]
    ELSE ProxyForward(p, method, length, outcome)

NoCall ==
    [api |-> "none", method |-> "none", sync |-> FALSE, kind |-> "none",
     value |-> JSUndefined, path |-> "", data |-> JSUndefined, cbs |-> <<>>]

-----------------------------------------------------------------------------
(* The callback API (lines 98-290): each function starts the operation of  *)
(* the promise API and hands its outcome to the completion callback.       *)

JSBoolean(b) == [t |-> "boolean", v |-> b]

\* a string, as the sequence of its code points
JSString(cps) == [t |-> "string", v |-> cps]

\* a Uint8Array / Buffer holding the bytes
Uint8Array(bytes) == [t |-> "object", class |-> "Uint8Array", bytes |-> bytes]

\* a completion callback; throws tells whether it throws when it is called
Callback(throws) == [t |-> "function", throws |-> throws]

CallbackError == JSObject([name |-> "Error"])

\* the UTF-8 bytes of one code point
Utf8Bytes(cp) ==
    IF cp < 128 THEN <<cp>>
    ELSE IF cp < 2048 THEN <<192 + (cp \div 64), 128 + (cp % 64)>>
    ELSE IF cp < 65536
         THEN <<224 + (cp \div 4096), 128 + ((cp \div 64) % 64), 128 + (cp % 64)>>
    ELSE <<240 + (cp \div 262144), 128 + ((cp \div 4096) % 64),
           128 + ((cp \div 64) % 64), 128 + (cp % 64)>>

RECURSIVE Utf8Encode(_)
Utf8Encode(cps) ==
    IF cps = <<>> THEN <<>> ELSE Utf8Bytes(Head(cps)) \o Utf8Encode(Tail(cps))

\* the number of bytes of the sequence a lead byte starts
Utf8Width(lead) ==
    IF lead < 128 THEN 1 ELSE IF lead < 224 THEN 2 ELSE IF lead < 240 THEN 3 ELSE 4

\* the code point of one well-formed UTF-8 sequence
Utf8CodePoint(bs) ==
    IF Len(bs) = 1 THEN bs[1]
    ELSE IF Len(bs) = 2 THEN (bs[1] - 192) * 64 + (bs[2] - 128)
    ELSE IF Len(bs) = 3
         THEN (bs[1] - 224) * 4096 + (bs[2] - 128) * 64 + (bs[3] - 128)
    ELSE (bs[1] - 240) * 262144 + (bs[2] - 128) * 4096
         + (bs[3] - 128) * 64 + (bs[4] - 128)

RECURSIVE Utf8Decode(_)
Utf8Decode(bytes) ==
    IF bytes = <<>> THEN <<>>
    ELSE LET w == Utf8Width(Head(bytes)) IN
         IF \/ w > Len(bytes)
            \/ (Head(bytes) >= 128 /\ Head(bytes) < 192)
            \/ \E i \in 2..w : bytes[i] < 128 \/ bytes[i] >= 192
         THEN <<65533>> \o Utf8Decode(Tail(bytes))   \* U+FFFD for a malformed one
         ELSE <<Utf8CodePoint(SubSeq(bytes, 1, w))>>
              \o Utf8Decode(SubSeq(bytes, w + 1, Len(bytes)))

\* Buffer.byteLength(data) of the test: a string's UTF-8 length, a buffer's
\* length
RECURSIVE StringByteLength(_)
StringByteLength(cps) ==
    IF cps = <<>> THEN 0
    ELSE (IF Head(cps) < 128 THEN 1 ELSE IF Head(cps) < 2048 THEN 2
          ELSE IF Head(cps) < 65536 THEN 3 ELSE 4) + StringByteLength(Tail(cps))

ByteLength(data) ==
    IF TypeOf(data) = "string" THEN StringByteLength(data.v) ELSE Len(data.bytes)

\* a promise of the promise API, already settled
Resolved(value) == [kind |-> "resolved", value |-> value]

Rejected(error) == [kind |-> "rejected", value |-> error]

\* the encoding that an options argument asks for: null, undefined and an
\* options object without encoding ask for none
EncodingOf(options) ==
    IF TypeOf(options) = "string" THEN options.v ELSE "none"

\* promises.exists(path): whether the path exists, unless the check fails
PromisesExists(fs, path, fails) ==
    IF fails THEN [fs |-> fs, promise |-> Rejected(ApiError("EIO", <<"exists">>))]
    ELSE [fs |-> fs, promise |-> Resolved(JSBoolean(path \in DOMAIN fs))]

\* promises.readFile(filename, options): the entire contents of the file,
\* the raw buffer if no encoding is specified
PromisesReadFile(fs, filename, options) ==
    IF filename \notin DOMAIN fs
    THEN [fs |-> fs, promise |-> Rejected(ApiError("ENOENT", <<"readFile">>))]
    ELSE [fs |-> fs,
          promise |-> Resolved(IF EncodingOf(options) = "none"
                               THEN Uint8Array(fs[filename])
                               ELSE JSString(Utf8Decode(fs[filename])))]

\* promises.writeFile(filename, data, options): replaces the file; a string
\* is encoded (utf8 by default), the encoding is ignored for a buffer
PromisesWriteFile(fs, filename, data, options, creatable) ==
    IF filename \notin creatable
    THEN [fs |-> fs, promise |-> Rejected(ApiError("ENOENT", <<"writeFile">>))]
    ELSE LET bytes == IF TypeOf(data) = "string" THEN Utf8Encode(data.v)
                      ELSE data.bytes IN
         [fs |-> [p \in DOMAIN fs \cup {filename} |->
                     IF p = filename THEN bytes ELSE fs[p]],
          promise |-> Resolved(JSUndefined)]

\* promises.unlink(path)
PromisesUnlink(fs, path) ==
    IF path \notin DOMAIN fs
    THEN [fs |-> fs, promise |-> Rejected(ApiError("ENOENT", <<"unlink">>))]
    ELSE [fs |-> [p \in DOMAIN fs \ {path} |-> fs[p]],
          promise |-> Resolved(JSUndefined)]

\* promise.then(() => cb(args)): the argument lists cb was called with and
\* the promise that then returns.  A rejection skips the call; an exception
\* thrown by cb is a rejection of the returned promise.
Then(promise, args, cb) ==
    IF promise.kind = "rejected" THEN [cbs |-> <<>>, promise |-> promise]
    ELSE [cbs |-> <<args>>,
          promise |-> IF cb.throws THEN Rejected(CallbackError)
                      ELSE Resolved(JSUndefined)]

\* chain.catch(() => cb(args)): cb is called once more if the chain rejected
Catch(chain, args) ==
    IF chain.promise.kind = "rejected" THEN chain.cbs \o <<args>> ELSE chain.cbs

\* exists() handing a failure of the check to the callback
ExistsPassesError(fs, path, cb, fails) ==
    LET out == PromisesExists(fs, path, fails) IN
    [fs |-> out.fs, promise |-> out.promise,
     cbs |-> LET chain == Then(out.promise, <<out.promise.value>>, cb) IN
             Catch(chain, <<chain.promise.value>>)]

\* exists(path, cb), lines 131-136
ExistsResult(fs, path, cb, fails) ==
    LET out == PromisesExists(fs, path, fails) IN
    [fs |-> out.fs, promise |-> out.promise,
     cbs |-> Catch(Then(out.promise, <<out.promise.value>>, cb),
                   <<JSBoolean(FALSE)>>)]

\* unlink(path, cb), lines 200-205
UnlinkResult(fs, path, cb) ==
    LET out == PromisesUnlink(fs, path) IN
    [fs |-> out.fs, promise |-> out.promise,
     cbs |-> LET chain == Then(out.promise, <<>>, cb) IN
             Catch(chain, <<chain.promise.value>>)]

\* readFile() asking the promise API for utf8 text whatever its options
ReadFileAsText(fs, filename, options, cb) ==
    LET callback == IF TypeOf(options) = "function" THEN options ELSE cb
        out == PromisesReadFile(fs, filename, JSString("utf8"))
    IN  [fs |-> out.fs, promise |-> out.promise,
         cbs |-> LET chain == Then(out.promise, <<JSNull, out.promise.value>>,
                                   callback) IN
                 Catch(chain, <<chain.promise.value>>)]

\* readFile(filename, options, cb), lines 256-263
ReadFileResult(fs, filename, options, cb) ==
    LET callback == IF TypeOf(options) = "function" THEN options ELSE cb
        out == PromisesReadFile(fs, filename,
                   IF TypeOf(options) = "function" THEN JSNull ELSE options)
    IN  [fs |-> out.fs, promise |-> out.promise,
         cbs |-> LET chain == Then(out.promise, <<JSNull, out.promise.value>>,
                                   callback) IN
                 Catch(chain, <<chain.promise.value>>)]

\* writeFile(filename, data, cbEncOpts, cb), lines 283-289
WriteFileResult(fs, filename, data, cbEncOpts, cb, creatable) ==
    LET callback == IF TypeOf(cbEncOpts) = "function" THEN cbEncOpts ELSE cb
        out == PromisesWriteFile(fs, filename, data,
                   IF TypeOf(cbEncOpts) # "function" THEN cbEncOpts ELSE JSNull,
                   creatable)
    IN  [fs |-> out.fs, promise |-> out.promise,
         cbs |-> LET chain == Then(out.promise, <<JSNull>>, callback) IN
                 Catch(chain, <<chain.promise.value>>)]

\* file.truncate(length) of the open file at path: the first length bytes,
\* zero-filled if the file was shorter, unless the file system fails
FileTruncate(fs, path, length, fails) ==
    IF fails THEN [fs |-> fs, promise |-> Rejected(ApiError("EIO", <<"truncate">>))]
    ELSE [fs |-> [p \in DOMAIN fs |->
                    IF p # path THEN fs[p]
                    ELSE [k \in 1..length |->
                            IF k <= Len(fs[p]) THEN fs[p][k] ELSE 0]],
          promise |-> Resolved(JSUndefined)]

\* a length that takes a negative number for 0
ClampedLength(lenOrCB) ==
    IF TypeOf(lenOrCB) = "number" /\ lenOrCB.v >= 0 THEN lenOrCB.v ELSE 0

\* const length = typeof lenOrCB === 'number' ? lenOrCB : 0
TruncateLength(lenOrCB) ==
    IF TypeOf(lenOrCB) = "number" THEN lenOrCB.v ELSE 0

\* ftruncate(fd, lenOrCB, cb), lines 357-367, on the file fd2file(fd) at
\* path: issued lists the lengths file.truncate was called with
FtruncateResult(fs, path, lenOrCB, cb, fails) ==
    LET length == TruncateLength(lenOrCB)
        callback == IF TypeOf(lenOrCB) = "function" THEN lenOrCB ELSE cb
        out == FileTruncate(fs, path, length, fails)
    IN  IF length < 0
        THEN [fs |-> fs, issued |-> <<>>, cbs |-> <<>>,
              promise |-> [kind |-> "threw", value |-> ApiError("EINVAL", <<>>)]]
        ELSE [fs |-> out.fs, issued |-> <<length>>, promise |-> out.promise,
              cbs |-> LET chain == Then(out.promise, <<>>, callback) IN
                      Catch(chain, <<chain.promise.value>>)]

\* the record of a finished call of the callback API
Finished(method, path, data, out) ==
    [api |-> "callback", method |-> method, sync |-> FALSE,
     kind |-> out.promise.kind, value |-> out.promise.value,
     path |-> path, data |-> data, cbs |-> out.cbs]

-----------------------------------------------------------------------------
(* createReadStream / createWriteStream (lines 824-897).  The record holds *)
(* the closure's handle variable, what was done on the file handle, and    *)
(* what the stream machinery has been told.                                *)

NoStream ==
    [kind |-> "none", path |-> "", size |-> 0,
     handle |-> FALSE, opens |-> 0, closes |-> 0,
     position |-> 0, at |-> 0, pushed |-> JSUndefined, writes |-> 0,
     ioAfterClose |-> FALSE, ended |-> FALSE, finished |-> FALSE,
     waiting |-> FALSE, destroyed |-> FALSE, cbs |-> 0]

\* handle ||= await promises.open(...), when open succeeds
OpenOnce(s) ==
    IF s.handle THEN s ELSE [s EXCEPT !.handle = TRUE, !.opens = @ + 1]

\* handle?.close()
CloseHandle(s) ==
    IF s.handle THEN [s EXCEPT !.closes = @ + 1] ELSE s

\* the destroy option.  Read stream: handle?.close().then(() =>
\* callback(error)).catch(callback).  Write stream: callback(error) first,
\* then the same chain.  Without a handle the whole chain is skipped.
DestroyOption(s) ==
    LET s1 == IF s.kind = "write" THEN [s EXCEPT !.cbs = @ + 1] ELSE s IN
    IF s1.handle THEN [CloseHandle(s1) EXCEPT !.cbs = @ + 1] ELSE s1

\* stream.destroy(error): runs the destroy option, once
StreamDestroy(s) ==
    IF s.destroyed THEN s ELSE DestroyOption([s EXCEPT !.destroyed = TRUE])

\* catch (error) { await handle?.close(); stream.destroy(error) } of read,
\* and the same with callback(error) of write, which destroys the stream;
\* if this close rejects, neither is reached
Caught(s, closeFails) ==
    IF s.handle /\ closeFails
    THEN [CloseHandle(s) EXCEPT !.waiting = TRUE]
    ELSE StreamDestroy(CloseHandle(s))

\* new Uint8Array(size) after handle.read has put bytesRead bytes into it:
\* 1 is a byte of the file, 0 a byte that was not filled
ReadBuffer(size, bytesRead) == [k \in 1..size |-> IF k <= bytesRead THEN 1 ELSE 0]

\* a read option that pushes the whole buffer
PushedBuffer(buffer, bytesRead) ==
    IF bytesRead = 0 THEN JSNull ELSE Uint8Array(buffer)

\* stream.push(!result.bytesRead ? null : result.buffer.slice(0,
\* result.bytesRead)): end-of-stream, or the bytes that were read
PushedChunk(buffer, bytesRead) ==
    IF bytesRead = 0 THEN JSNull ELSE Uint8Array(SubSeq(buffer, 1, bytesRead))

\* the read option, lines 830-843
ReadResult(s, openFails, readFails, bytesRead, closeFails) ==
    IF ~s.handle /\ openFails THEN Caught(s, closeFails)
    ELSE LET s1 == OpenOnce(s)
             s2 == [s1 EXCEPT !.at = s1.position,
                              !.ioAfterClose = @ \/ s1.closes > 0]
             buffer == ReadBuffer(StreamFileSize, bytesRead)
             s3 == [s2 EXCEPT !.pushed = PushedChunk(buffer, bytesRead),
                              !.position = @ + bytesRead,
                              !.ended = (bytesRead = 0)]
         IN  IF readFails THEN Caught(s2, closeFails)
             ELSE IF bytesRead # 0 THEN s3
             ELSE IF closeFails THEN Caught(CloseHandle(s3), closeFails)
             ELSE CloseHandle(s3)

\* the write option, lines 869-878
WriteResult(s, openFails, writeFails, closeFails) ==
    IF ~s.handle /\ openFails THEN Caught(s, closeFails)
    ELSE LET s1 == OpenOnce(s)
             s2 == [s1 EXCEPT !.writes = @ + 1,
                              !.ioAfterClose = @ \/ s1.closes > 0]
         IN  IF writeFails THEN Caught(s2, closeFails) ELSE s2

\* the final option, lines 886-891: without a handle its callback is never
\* called
FinalResult(s) ==
    [CloseHandle(s) EXCEPT !.finished = TRUE, !.waiting = ~s.handle]

-----------------------------------------------------------------------------
(* Inputs.                                                                 *)

\* results of Math.random(), as the hexadecimal digits of the fraction: 0.5,
\* and two longer fractions that differ only before the tenth character
Fractions ==
    { <<"8">>,
      <<"3", "c", "0", "0", "0", "0", "0", "0", "a">>,
      <<"9", "1", "0", "0", "0", "0", "0", "0", "a">> }

GeneratedIds == {GenId(f) : f \in Fractions}

\* an id no call of the model is ever given
ForgedId == <<"f", "f">>

ResponseIds == GeneratedIds \cup {ForgedId}

Requests == { [scope |-> "fs", method |-> "stat", args |-> <<"/a.txt">>] }

Stubs == {"portfs1", "portfs2"}

TimeoutOptions == {JSUndefined, JSNumber(ShortTimeout)}

RemoteStack == <<"\n    at remote">>

FileDataValue == JSObject([fd |-> 3, path |-> "/a.txt", position |-> 10])

RemoteErrorValue == JSObject([code |-> "ENOENT", stack |-> <<"RemoteError">>])

ResponseValues == {JSUndefined, JSNull, JSNumber(7), FileDataValue, RemoteErrorValue}

Response(tag, id, error, value) ==
    JSObject([_zenfs |-> tag, scope |-> "fs", method |-> "stat", id |-> id,
              stack |-> RemoteStack, error |-> error, value |-> value])

Responses(ids, errors, values) ==
    {Response(TRUE, id, error, value) : id \in ids, error \in errors, value \in values}

UntaggedMessages ==
    {JSUndefined, JSNull, JSNumber(7), JSObject([hello |-> 1])}
        \cup {Response(FALSE, id, FALSE, JSNumber(7)) : id \in GeneratedIds}

AllMessages == Responses(ResponseIds, BOOLEAN, ResponseValues) \cup UntaggedMessages

-----------------------------------------------------------------------------
(* State machine.                                                          *)

NoDelivery == [invoked |-> FALSE, result |-> "none", error |-> JSUndefined]

InitOn(shapes) ==
    /\ executors = {}
    /\ calls = <<>>
    /\ posted = <<>>
    /\ listeners = <<>>
    /\ last = NoDelivery
    /\ port \in {NewPort(shape) : shape \in shapes}
    /\ received = <<>>
    /\ files = <<>>
    /\ done = NoCall
    /\ remote = NewRemote(<<>>)
    /\ stream = NoStream
    /\ proxy = NoProxy

\* the stub's port is a worker or a channel endpoint with on/off
Init == InitOn({"on"})

\* attach(port, handler): a handler is subscribed on the port
attach(handler) ==
    /\ port.ops[handler] # "attached"
    /\ Len(listeners) < MaxListeners
    /\ LET out == AttachResult(port.shape, listeners, handler) IN
       /\ listeners' = out.listeners
       /\ port' = [port EXCEPT !.error = out.error, !.ops[handler] = "attached"]
    /\ last' = NoDelivery
    /\ received' = <<>>
    /\ UNCHANGED <<executors, calls, posted>>
    /\ UNCHANGED <<fsVars, remote, stream, proxy>>

\* detach(port, handler)
detach(handler) ==
    /\ port.ops[handler] = "attached"
    /\ LET out == DetachResult(port.shape, listeners, handler) IN
       /\ listeners' = out.listeners
       /\ port' = [port EXCEPT !.error = out.error, !.ops[handler] = "detached"]
    /\ last' = NoDelivery
    /\ received' = <<>>
    /\ UNCHANGED <<executors, calls, posted>>
    /\ UNCHANGED <<fsVars, remote, stream, proxy>>

\* request(request, { port, timeout, fs })
request(req, fs, timeout, fraction) ==
    /\ Len(calls) < MaxCalls
    /\ LET id == GenId(fraction)
           stack == CapturedStack
       IN  /\ executors' = ExecutorsSet(executors, id, Len(calls) + 1, fs)
           /\ posted' = PostMessage(posted, RequestMessage(req, id, stack))
           /\ calls' = Append(calls, NewCall(id, stack, fs, EffectiveTimeout(timeout)))
    /\ last' = NoDelivery
    /\ UNCHANGED <<listeners, port, received>>
    /\ UNCHANGED <<fsVars, remote, stream, proxy>>

\* the delays still to run of the timers that are not yet due
Waiting == {calls[c].remaining : c \in {k \in DOMAIN calls :
                calls[k].timer = "armed" /\ calls[k].remaining > 0}}

\* time passes, up to the moment the next timer becomes due
Tick ==
    /\ Waiting # {}
    /\ LET d == CHOOSE x \in Waiting : \A y \in Waiting : x <= y IN
       calls' = [c \in DOMAIN calls |->
                    IF calls[c].timer = "armed" /\ calls[c].remaining > 0
                    THEN [calls[c] EXCEPT !.remaining = @ - d]
                    ELSE calls[c]]
    /\ last' = NoDelivery
    /\ UNCHANGED <<executors, posted, listeners, port, received>>
    /\ UNCHANGED <<fsVars, remote, stream, proxy>>

\* the callback given to setTimeout runs
TimerFire(c) ==
    /\ TimerDue(calls[c])
    /\ calls' = [calls EXCEPT ![c] = TimeoutCallback(calls[c])]
    /\ last' = NoDelivery
    /\ UNCHANGED <<executors, posted, listeners, port, received>>
    /\ UNCHANGED <<fsVars, remote, stream, proxy>>

\* the port delivers a message to the listener registered by attach, either
\* as the raw value or wrapped in an event
Delivery(message, wrapped) ==
    /\ listeners # <<>>
    /\ LET arg == Unwrap(IF wrapped THEN MessageEvent(message) ELSE message) IN
       /\ IF ~arg.ok
          THEN /\ last' = [invoked |-> FALSE, result |-> "threw", error |-> arg.value]
               /\ UNCHANGED <<executors, calls>>
          ELSE IF ~Subscribed(listeners, "handleResponse")
          THEN /\ last' = [invoked |-> FALSE, result |-> "returned", error |-> JSUndefined]
               /\ UNCHANGED <<executors, calls>>
          ELSE LET out == handleResponse(executors, calls, arg.value) IN
               /\ executors' = out.executors
               /\ calls' = out.calls
               /\ last' = [invoked |-> TRUE, result |-> out.result, error |-> out.error]
       /\ received' = IF arg.ok
                      THEN [i \in 1..Len(SelectSeq(listeners, LAMBDA l : l.handler = "h"))
                               |-> arg.value]
                      ELSE <<>>
    /\ UNCHANGED <<posted, listeners, port>>
    /\ UNCHANGED <<fsVars, stream, proxy>>

\* a message that does not come from the dispatcher of this model
Deliver(message, wrapped) ==
    /\ Delivery(message, wrapped)
    /\ UNCHANGED remote

NextOver(stubs, timeouts, messages) ==
    \/ attach("handleResponse")
    \/ \E req \in Requests, fs \in stubs, timeout \in timeouts, fraction \in Fractions :
          request(req, fs, timeout, fraction)
    \/ Tick
    \/ \E c \in DOMAIN calls : TimerFire(c)
    \/ \E message \in messages, wrapped \in BOOLEAN : Deliver(message, wrapped)

\* one stub, one configured timeout; successes, remote failures, forged ids
\* and foreign messages
Next ==
    NextOver({"portfs1"}, {JSNumber(ShortTimeout)},
             Responses(ResponseIds, {FALSE}, {JSUndefined, JSNumber(7)})
                \cup Responses(ResponseIds, {TRUE}, {RemoteErrorValue})
                \cup UntaggedMessages)

Spec == Init /\ [][Next]_vars

\* both timeout configurations; success responses for the ids in use
FairNext ==
    NextOver({"portfs1"}, TimeoutOptions,
             Responses(GeneratedIds, {FALSE}, {JSUndefined}))

\* the event loop runs every due timer callback, and time does not stop
FairSpec ==
    /\ Init /\ [][FairNext]_vars
    /\ WF_vars(Tick)
    /\ \A c \in 1..MaxCalls : WF_vars(c \in DOMAIN calls /\ TimerFire(c))

\* two stubs; success responses carrying handle descriptors and plain values
FileNext ==
    NextOver(Stubs, {JSNumber(ShortTimeout)},
             Responses(GeneratedIds, {FALSE}, {FileDataValue, JSNumber(7)}))

FileSpec == Init /\ [][FileNext]_vars

\* success responses carrying the values that are no handle descriptor
ValueNext ==
    NextOver({"portfs1"}, {JSNumber(ShortTimeout)},
             Responses(GeneratedIds, {FALSE}, {JSUndefined, JSNull, JSNumber(7)}))

ValueSpec == Init /\ [][ValueNext]_vars

\* a call of one of the overridden methods on a ReadonlyFS instance
callReadonly(method, sync, args) ==
    /\ LET out == ReadonlyFS(files, method, args) IN
       /\ files' = out.fs
       /\ done' = [api |-> "Readonly", method |-> method, sync |-> sync,
                   kind |-> CallEnds(sync, out.threw), value |-> out.value,
                   path |-> args[1], data |-> JSUndefined, cbs |-> <<>>]
    /\ UNCHANGED rpcVars

\* metadata() on a ReadonlyFS instance whose wrapped class reports base
metadata(base) ==
    /\ done' = [api |-> "Readonly", method |-> "metadata", sync |-> TRUE,
                kind |-> "returned", value |-> JSObject(ReadonlyMetadata(base)),
                path |-> "", data |-> JSObject(base), cbs |-> <<>>]
    /\ UNCHANGED files
    /\ UNCHANGED rpcVars

\* the paths under which a file can be created: those in an existing directory
Creatable == {"/tmp/test.txt", "/tmp/test2.txt"}

\* exists(path, cb) together with the outcome of the underlying check
exists(path, cb, fails) ==
    /\ LET out == ExistsResult(files, path, cb, fails) IN
       /\ files' = out.fs
       /\ done' = Finished("exists", path, JSUndefined, out)
    /\ UNCHANGED rpcVars

readFile(filename, options, cb) ==
    /\ LET out == ReadFileResult(files, filename, options, cb) IN
       /\ files' = out.fs
       /\ done' = Finished("readFile", filename, JSUndefined, out)
    /\ UNCHANGED rpcVars

writeFile(filename, data, cbEncOpts, cb) ==
    /\ LET out == WriteFileResult(files, filename, data, cbEncOpts, cb, Creatable) IN
       /\ files' = out.fs
       /\ done' = Finished("writeFile", filename, data, out)
    /\ UNCHANGED rpcVars

unlink(path, cb) ==
    /\ LET out == UnlinkResult(files, path, cb) IN
       /\ files' = out.fs
       /\ done' = Finished("unlink", path, JSUndefined, out)
    /\ UNCHANGED rpcVars

\* createReadStream(path) / createWriteStream(path); size is the length of
\* the file a read stream will find at the path
createStream(kind, path, size) ==
    /\ stream.kind = "none"
    /\ stream' = [NoStream EXCEPT !.kind = kind, !.path = path, !.size = size]
    /\ UNCHANGED <<executors, calls, posted, listeners, last, port, received>>
    /\ UNCHANGED <<fsVars, remote, proxy>>

\* the stream machinery asks for data: not after end-of-stream, not after
\* destroy, not while the previous read has not pushed
streamRead(openFails, readFails, bytesRead, closeFails) ==
    /\ stream.kind = "read"
    /\ ~stream.destroyed /\ ~stream.ended /\ ~stream.waiting
    /\ bytesRead \in (IF stream.position < stream.size
                       THEN 1..(stream.size - stream.position) ELSE {0})
    /\ stream' = ReadResult(stream, openFails, readFails, bytesRead, closeFails)
    /\ UNCHANGED <<executors, calls, posted, listeners, last, port, received>>
    /\ UNCHANGED <<fsVars, remote, proxy>>

\* the stream machinery hands over a chunk
streamWrite(openFails, writeFails, closeFails) ==
    /\ stream.kind = "write"
    /\ ~stream.destroyed /\ ~stream.finished /\ ~stream.waiting
    /\ stream.writes < MaxWrites
    /\ stream' = WriteResult(stream, openFails, writeFails, closeFails)
    /\ UNCHANGED <<executors, calls, posted, listeners, last, port, received>>
    /\ UNCHANGED <<fsVars, remote, proxy>>

\* end() of the write stream
streamFinal ==
    /\ stream.kind = "write"
    /\ ~stream.destroyed /\ ~stream.finished /\ ~stream.waiting
    /\ stream' = FinalResult(stream)
    /\ UNCHANGED <<executors, calls, posted, listeners, last, port, received>>
    /\ UNCHANGED <<fsVars, remote, proxy>>

\* stream.destroy(), by the user or by the machinery after end / finish
streamDestroy ==
    /\ stream.kind # "none"
    /\ ~stream.destroyed
    /\ stream' = StreamDestroy(stream)
    /\ UNCHANGED <<executors, calls, posted, listeners, last, port, received>>
    /\ UNCHANGED <<fsVars, remote, proxy>>

\* a remote open answered with a HandleDescriptor: the stub makes the proxy
openProxy(descriptor, size) ==
    /\ proxy.state = "none"
    /\ proxy' = NewProxy(descriptor, size)
    /\ UNCHANGED <<executors, calls, posted, listeners, last, port, received>>
    /\ UNCHANGED <<fsVars, remote, stream>>

\* one operation on the proxy, from the call to the settling of its promise
callProxy(method, length, outcome) ==
    /\ proxy.state # "none"
    /\ proxy.state = "closed" \/ Len(proxy.sent) < MaxCalls
    /\ method = "write" => proxy.file.props.position + length <= MaxPosition
    /\ proxy' = ProxyCall(proxy, method, length, outcome)
    /\ UNCHANGED <<executors, calls, posted, listeners, last, port, received>>
    /\ UNCHANGED <<fsVars, remote, stream>>

\* the dispatcher receives a posted Request it has not handled yet
handleRequest(i) ==
    /\ i \in DOMAIN posted
    /\ \A h \in remote.handled : h.request # i
    /\ remote' = Dispatch(remote, i, posted[i])
    /\ last' = NoDelivery
    /\ UNCHANGED <<executors, calls, posted, listeners, port, received>>
    /\ UNCHANGED <<fsVars, stream, proxy>>

\* the port delivers the replies of the dispatcher to the stub's side, in
\* the order in which they were sent
DeliverReply(j, wrapped) ==
    /\ j \in DOMAIN remote.replies \ remote.delivered
    /\ \A k \in 1..(j - 1) : k \in remote.delivered
    /\ Delivery(remote.replies[j].message, wrapped)
    /\ remote' = [remote EXCEPT !.delivered = @ \cup {j}]

\* a plain handler on a port of any of the three kinds; every message
PortNext ==
    \/ attach("h")
    \/ detach("h")
    \/ \E message \in AllMessages, wrapped \in BOOLEAN : Deliver(message, wrapped)

PortSpec == InitOn(PortShapes) /\ [][PortNext]_vars

\* the paths and file contents of the local file system
Paths == Creatable

SmallContents == {<<>>, <<65>>}

Volumes == UNION {[ps -> SmallContents] : ps \in SUBSET Paths}

\* a state with nothing on the port and a given local file system
InitFiles(volumes) ==
    /\ executors = {}
    /\ calls = <<>>
    /\ posted = <<>>
    /\ listeners = <<>>
    /\ last = NoDelivery
    /\ port = NewPort("on")
    /\ received = <<>>
    /\ files \in volumes
    /\ done = NoCall
    /\ remote = NewRemote(<<>>)
    /\ stream = NoStream
    /\ proxy = NoProxy

\* what super.metadata() of a writable and of a read-only class reports
BaseMetadata ==
    { [name |-> "InMemory", readonly |-> FALSE, freeSpace |-> 0],
      [name |-> "Fetch", readonly |-> TRUE, freeSpace |-> 0] }

\* every overridden method of a ReadonlyFS over every wrapped file system
ReadonlyNext ==
    \/ \E method \in ReadonlyMethods, sync \in BOOLEAN, args \in Paths \X Paths :
          callReadonly(method, sync, args)
    \/ \E base \in BaseMetadata : metadata(base)

ReadonlySpec == InitFiles(Volumes) /\ [][ReadonlyNext]_vars

\* the inputs of the callback API: paths, among them one in a directory
\* that does not exist; strings with characters of 1, 2, 3 and 4 bytes
IoPaths == Creatable \cup {"/missing/test.txt"}

Strings == {JSString(<<>>), JSString(<<65, 233>>), JSString(<<21335, 128512>>)}

Buffers == {Uint8Array(<<0, 255>>)}

Callbacks == {Callback(FALSE), Callback(TRUE)}

\* nop, the default of an omitted callback
Nop == Callback(FALSE)

\* ftruncate(fd, lenOrCB, cb) on an open file; fd2file(fd) is the file at
\* the path the descriptor was opened on
ftruncate(fd, lenOrCB, cb, fails) ==
    /\ LET path == IF fd = 3 THEN "/tmp/test.txt" ELSE "/tmp/test2.txt"
           out == FtruncateResult(files, path, lenOrCB, cb, fails)
       IN  /\ path \in DOMAIN files
           /\ files' = out.fs
           /\ done' = Finished("ftruncate", path,
                                [lenOrCB |-> lenOrCB, cb |-> cb,
                                 issued |-> out.issued], out)
    /\ UNCHANGED rpcVars

IoNext ==
    \/ \E path \in IoPaths, cb \in Callbacks, fails \in BOOLEAN :
          exists(path, cb, fails)
    \/ \E filename \in IoPaths, cb \in Callbacks :
          \/ readFile(filename, cb, Nop)
          \/ readFile(filename, JSString("utf8"), cb)
    \/ \E filename \in IoPaths, data \in Strings \cup Buffers, cb \in Callbacks :
          \/ writeFile(filename, data, cb, Nop)
          \/ writeFile(filename, data, JSString("utf8"), cb)
    \/ \E path \in IoPaths, cb \in Callbacks : unlink(path, cb)

IoSpec == InitFiles({<<>>}) /\ [][IoNext]_vars

\* ftruncate on the open files of a volume: with a length, without one, and
\* with the callback in the place of the length
TruncateNext ==
    \E fd \in 3..4, cb \in Callbacks, fails \in BOOLEAN :
        \/ \E len \in -1..2 : ftruncate(fd, JSNumber(len), cb, fails)
        \/ ftruncate(fd, JSUndefined, cb, fails)
        \/ ftruncate(fd, cb, Nop, fails)

TruncateSpec == InitFiles(Volumes) /\ [][TruncateNext]_vars

\* one stream, every outcome of open, read, write and close
StreamNext ==
    \/ \E path \in IoPaths :
          \/ \E size \in 0..StreamFileSize : createStream("read", path, size)
          \/ createStream("write", path, 0)
    \/ \E openFails, readFails, closeFails \in BOOLEAN, bytesRead \in 0..StreamFileSize :
          streamRead(openFails, readFails, bytesRead, closeFails)
    \/ \E openFails, writeFails, closeFails \in BOOLEAN :
          streamWrite(openFails, writeFails, closeFails)
    \/ streamFinal
    \/ streamDestroy

StreamSpec == Init /\ [][StreamNext]_vars

\* the HandleDescriptors an open is answered with
Descriptors ==
    {HandleDescriptor(3, [path |-> "/a.txt", position |-> q]) : q \in 0..1}

\* one PortFile: opened, operated on with every outcome, closed, operated
\* on after the close
ProxyNext ==
    \/ \E d \in Descriptors, size \in 1..MaxPosition : openProxy(d, size)
    \/ \E method \in {"read", "write", "sync", "close"}, length \in 1..2,
          outcome \in {"ok", "error", "timeout"} :
          callProxy(method, length, outcome)

ProxySpec == Init /\ [][ProxyNext]_vars

\* the file system bound to the dispatcher, and the calls made through the
\* stub
RemoteFiles == [p \in {"/a.txt"} |-> <<65>>]

RemoteRequests ==
    { [scope |-> "fs", method |-> "stat", args |-> <<"/a.txt">>],
      [scope |-> "fs", method |-> "unlink", args |-> <<"/a.txt">>],
      [scope |-> "fs", method |-> "openFile", args |-> <<"/a.txt">>] }

\* one result of Math.random() for each id that can be generated
OneFractionPerId == {f \in Fractions : f[1] # "9"}

InitRemote ==
    /\ executors = {}
    /\ calls = <<>>
    /\ posted = <<>>
    /\ listeners = <<>>
    /\ last = NoDelivery
    /\ port = NewPort("on")
    /\ received = <<>>
    /\ files = <<>>
    /\ done = NoCall
    /\ remote = NewRemote(RemoteFiles)
    /\ stream = NoStream
    /\ proxy = NoProxy

\* a stub and a dispatcher on the two ends of one channel
RoundTripNext ==
    \/ attach("handleResponse")
    \/ \E req \in RemoteRequests, fraction \in OneFractionPerId :
          request(req, "portfs1", JSNumber(ShortTimeout), fraction)
    \/ Tick
    \/ \E c \in DOMAIN calls : TimerFire(c)
    \/ \E i \in DOMAIN posted : handleRequest(i)
    \/ \E j \in DOMAIN remote.replies : DeliverReply(j, FALSE)

RoundTripSpec == InitRemote /\ [][RoundTripNext]_vars

-----------------------------------------------------------------------------
(* Properties.                                                             *)

Pending(c) == calls[c].promise.kind = "pending"

Settled(c) == calls[c].promise.kind \in {"resolved", "rejected"}

HasRecord(ex, c) == \E e \in ex : e.call = c

Tagged(m) == isMessage(m) = "true"

\* C1: every call gets exactly one terminal outcome: once its promise is
\* settled (by a Response or by the timeout) the outcome never changes, and
\* every issued call is eventually settled.
C1_ExactlyOneOutcome ==
    /\ [][\A c \in DOMAIN calls : Settled(c) => calls'[c].promise = calls[c].promise]_vars
    /\ \A c \in 1..MaxCalls :
          (c \in DOMAIN calls) ~> (c \in DOMAIN calls /\ Settled(c))

\* a call settled by a Response whose timer ran afterwards, next to a call
\* that timed out and whose late Response was handled afterwards
C1_Witness ==
    /\ \E c \in DOMAIN calls :
          calls[c].promise.by = "response" /\ calls[c].timer = "done"
    /\ \E c \in DOMAIN calls :
          calls[c].promise.by = "timer" /\ ~HasRecord(executors, c)
                /\ \A d \in DOMAIN calls : d # c => calls[d].id # calls[c].id

\* C2: the record of a call is removed in both outcomes, so no settled call
\* (answered or timed out) still has a record in the table.
C2_RecordRemovedInBothOutcomes ==
    \A c \in DOMAIN calls : Settled(c) => ~HasRecord(executors, c)

\* C3: the timeout removes the record in the step that rejects, and a tagged
\* Response for the id of a timed-out call is then an unrecognized-id failure
\* that leaves the call as the timeout settled it.
C3_LateResponseIsUnknownId ==
    [][ /\ \A c \in DOMAIN calls : TimerFire(c) => ~HasRecord(executors', c)
        /\ \A m \in AllMessages, w \in BOOLEAN :
              (/\ Tagged(m)
               /\ \E c \in DOMAIN calls :
                     calls[c].id = m.props.id /\ calls[c].promise.by = "timer"
               /\ \A c \in DOMAIN calls : calls[c].id = m.props.id => ~Pending(c)
               /\ Deliver(m, w))
              => (last'.result = "threw" /\ calls' = calls) ]_vars

\* C4: the ids of the outstanding calls are pairwise distinct.
C4_OutstandingIdsDistinct ==
    \A c, d \in DOMAIN calls :
        (c # d /\ Pending(c) /\ Pending(d)) => calls[c].id # calls[d].id

\* what a Response settles a pending call with, read off the Response alone
SettledAsCarried(p, m) ==
    LET v == m.props.value IN
    /\ p.by = "response"
    /\ IF m.props.error
       THEN /\ p.kind = "rejected"
            /\ \A k \in DOMAIN v.props \ {"stack"} : p.value.props[k] = v.props[k]
       ELSE /\ p.kind = "resolved"
            /\ isFileData(v) = "true" => p.value.props.fd = v.props.fd
            /\ isFileData(v) = "false" => p.value = v

\* C5: in every reachable state, whatever the order of the deliveries so
\* far, handling a message settles a call only if the message is a Response
\* carrying that call's id, and settles it with what that Response carries.
C5_SettledByOwnResponse ==
    \A m \in AllMessages :
        LET out == handleResponse(executors, calls, m) IN
        \A c \in DOMAIN calls :
           out.calls[c].promise # calls[c].promise =>
              /\ Tagged(m)
              /\ m.props.id = calls[c].id
              /\ SettledAsCarried(out.calls[c].promise, m)

\* two calls with distinct ids outstanding, the later one answered first
C5_Witness ==
    /\ Len(calls) = 2
    /\ calls[1].id # calls[2].id
    /\ Pending(1) /\ HasRecord(executors, 1)
    /\ calls[2].promise.by = "response" /\ calls[2].promise.value = JSNumber(7)

\* C6: a timeout rejection happens only once the call's whole delay has
\* elapsed, it carries an EIO error whose message holds the call's id, and no
\* call stays pending forever: without a Response the timer settles it.
C6_TimeoutRejects ==
    /\ [](\A c \in DOMAIN calls :
            calls[c].promise.by = "timer" =>
               /\ calls[c].timer = "done" /\ calls[c].remaining = 0
               /\ calls[c].promise.kind = "rejected"
               /\ calls[c].promise.value.props.code = "EIO"
               /\ calls[c].promise.value.props.message
                     = <<"RPC Failed (#", calls[c].id, ")">>)
    /\ \A c \in 1..MaxCalls :
          (c \in DOMAIN calls /\ Pending(c)) ~>
             (c \in DOMAIN calls /\ calls[c].promise.by \in {"timer", "response"})

\* a call issued without a timeout option, never answered, rejected by its
\* timer after the default delay
C6_Witness ==
    \E c \in DOMAIN calls :
        /\ calls[c].timeout = DefaultTimeout
        /\ calls[c].promise.by = "timer"
        /\ HasRecord(executors, c)

C8_UntaggedIgnored ==
    [][last'.result # "none" =>
          \A m \in AllMessages, w \in BOOLEAN :
             (~Tagged(m) /\ Deliver(m, w) /\ last'.invoked) =>
                (last'.result = "ignored" /\ calls' = calls /\ executors' = executors)]_vars

\* C9: in every reachable state, handling a Response with error = true
\* whose value is an object, for an id that has a record, removes the record
\* and never resolves the call; a call that was pending is rejected with the
\* value, the Response's stack appended to its stack.
C9_ErrorResponseRejects ==
    \A m \in AllMessages :
        (/\ Tagged(m) /\ m.props.error /\ m.props.value.t = "object"
         /\ ExecutorsHas(executors, m.props.id)) =>
           LET out == handleResponse(executors, calls, m)
               c == ExecutorsGet(executors, m.props.id).call
               v == m.props.value
               p == out.calls[c].promise
           IN  /\ out.result = "returned"
               /\ ~ExecutorsHas(out.executors, m.props.id)
               /\ p.kind = "rejected"
               /\ Pending(c) =>
                     /\ p.by = "response"
                     /\ DOMAIN p.value.props = DOMAIN v.props \cup {"stack"}
                     /\ \A k \in DOMAIN v.props \ {"stack"} :
                           p.value.props[k] = v.props[k]
                     /\ p.value.props.stack
                           = (IF "stack" \in DOMAIN v.props THEN v.props.stack
                              ELSE <<"undefined">>) \o m.props.stack

\* a call rejected with the remote error, the remote stack appended, and its
\* record gone
C9_Witness ==
    \E c \in DOMAIN calls :
        /\ calls[c].promise.by = "response" /\ calls[c].promise.kind = "rejected"
        /\ calls[c].promise.value.props.code = "ENOENT"
        /\ calls[c].promise.value.props.stack = <<"RemoteError">> \o RemoteStack
        /\ ~HasRecord(executors, c)

\* C10: in every reachable state, handling a non-error Response carrying a
\* HandleDescriptor, for an id that has a record, resolves a call that was
\* pending with a file proxy whose fd, path and position are the descriptor's
\* and whose owner is the stub of the record, the stub the call was issued
\* with.
C10_DescriptorBecomesProxy ==
    \A m \in AllMessages :
        (/\ Tagged(m) /\ ~m.props.error /\ isFileData(m.props.value) = "true"
         /\ ExecutorsHas(executors, m.props.id)) =>
           LET out == handleResponse(executors, calls, m)
               entry == ExecutorsGet(executors, m.props.id)
               v == m.props.value
               p == out.calls[entry.call].promise
           IN  Pending(entry.call) =>
                  /\ p.kind = "resolved" /\ p.by = "response"
                  /\ p.value.class = "PortFile"
                  /\ p.value.props.fd = v.props.fd
                  /\ p.value.props.path = v.props.path
                  /\ p.value.props.position = v.props.position
                  /\ p.value.props.fs = entry.fs
                  /\ entry.fs = calls[entry.call].fs

\* two calls issued by different stubs, each resolved with a proxy owned by
\* its own stub
C10_Witness ==
    \E c, d \in DOMAIN calls :
        /\ calls[c].fs = "portfs1" /\ calls[d].fs = "portfs2"
        /\ calls[c].promise.kind = "resolved" /\ calls[d].promise.kind = "resolved"
        /\ calls[c].promise.value.t = "object" /\ calls[d].promise.value.t = "object"
        /\ calls[c].promise.value.props.fs = "portfs1"
        /\ calls[d].promise.value.props.fs = "portfs2"
        /\ calls[c].promise.value.props.position = 10

\* C11: a delivered non-error Response whose value is no HandleDescriptor,
\* for the id of a pending call, resolves the call with that value and
\* removes the record, for every such value (primitives, undefined, null).
C11_PlainValueResolves ==
    [][last'.result # "none" =>
          \A m \in AllMessages, w \in BOOLEAN :
             (/\ Tagged(m) /\ ~m.props.error /\ isFileData(m.props.value) # "true"
              /\ ExecutorsHas(executors, m.props.id)
              /\ Pending(ExecutorsGet(executors, m.props.id).call)
              /\ Deliver(m, w)) =>
                LET c == ExecutorsGet(executors, m.props.id).call IN
                /\ last'.result = "returned"
                /\ calls'[c].promise.kind = "resolved"
                /\ calls'[c].promise.value = m.props.value
                /\ ~ExecutorsHas(executors', m.props.id)]_vars

\* C16: the channel has been handed exactly one Request per call issued, the
\* k-th message being the Request of the k-th call, in every state: a call
\* posts when it is issued, whatever is outstanding, and neither a timeout
\* nor a remote failure posts anything.
C16_OneRequestPerCall ==
    /\ Len(posted) = Len(calls)
    /\ \A c \in DOMAIN calls :
          /\ Tagged(posted[c])
          /\ posted[c].props.id = calls[c].id
          /\ "args" \in DOMAIN posted[c].props

\* two calls, one ended by its timeout and one by a remote failure, and
\* still two messages posted
C16_Witness ==
    /\ Len(posted) = 2
    /\ \E c, d \in DOMAIN calls :
          /\ calls[c].promise.by = "timer"
          /\ calls[d].promise.by = "response" /\ calls[d].promise.kind = "rejected"

\* C13: after attach(port, h) and then detach(port, h) with the same handler,
\* a message delivered on the port no longer invokes h.
C13_DetachedNotInvoked ==
    port.ops["h"] = "detached" => received = <<>>

\* C14: on a port of any of the three kinds, attach(port, h) completes
\* without an error and every message delivered afterwards invokes h exactly
\* once.
C14_AttachAnyShape ==
    port.ops["h"] = "attached" =>
        /\ port.error = JSUndefined
        /\ Subscribed(listeners, "h")
        /\ last.result # "none" => Len(received) = 1

Envelopes == {m \in AllMessages : Tagged(m)}

\* C15: a handler registered through attach gets the envelope itself, when
\* the port delivers the raw envelope and when it delivers an event carrying
\* the envelope in its data field.
C15_HandlerGetsEnvelope ==
    [][\A m \in Envelopes, w \in BOOLEAN :
          (/\ Len(listeners) = 1 /\ Subscribed(listeners, "h")
           /\ Deliver(m, w)) => received' = <<m>>]_vars

C15_Witness ==
    /\ port.shape = "addEventListener"
    /\ Len(listeners) = 1
    /\ Len(received) = 1
    /\ received[1] \in Envelopes

\* C17: on a ReadonlyFS every call of rename, createFile, unlink, rmdir,
\* mkdir, link, sync and of their Sync variants fails with EROFS, for all
\* arguments: the async ones by a rejected promise, the Sync ones by a throw;
\* and no such call changes the wrapped file system's state.
C17_ReadonlyFailsWithEROFS ==
    [][\A method \in ReadonlyMethods, sync \in BOOLEAN, args \in Paths \X Paths :
          callReadonly(method, sync, args) =>
              /\ files' = files
              /\ done'.value = ErrnoError("EROFS")
              /\ done'.kind = IF sync THEN "threw" ELSE "rejected"]_vars

C17_Witness ==
    /\ done.api = "Readonly"
    /\ done.method = "unlink"
    /\ ~done.sync
    /\ done.kind = "rejected"
    /\ DOMAIN files = Paths

\* C18: on a writable file system, when writeFile(filename, data, cb) has
\* completed successfully, a following readFile(filename, cb) hands its
\* callback a buffer whose length is the byte length of data, for a string
\* (with multi-byte characters) and for a buffer; and an unlink(filename)
\* that follows the read succeeds.
C18_WriteThenReadLength ==
    [][\A filename \in IoPaths, cb \in Callbacks :
          /\ (/\ done.method = "writeFile" /\ done.path = filename
               /\ done.kind = "resolved"
               /\ readFile(filename, cb, Nop)) =>
                 /\ done'.cbs[1][1] = JSNull
                 /\ done'.cbs[1][2].t = "object"
                 /\ Len(done'.cbs[1][2].bytes) = ByteLength(done.data)
          /\ (/\ done.method = "readFile" /\ done.path = filename
               /\ done.kind = "resolved"
               /\ unlink(filename, cb)) =>
                 /\ done'.kind = "resolved"
                 /\ done'.cbs[1] = <<>>
                 /\ filename \notin DOMAIN files']_vars

C18_Witness ==
    /\ done.method = "readFile"
    /\ done.kind = "resolved"
    /\ done.cbs[1][2].t = "object"
    /\ Len(done.cbs[1][2].bytes) = 7

\* C19: exists(path, cb) reports through a boolean and never through an
\* error: cb gets true when the path exists, false when it does not exist or
\* when the underlying check fails.
C19_ExistsReportsBoolean ==
    done.method = "exists" =>
        /\ done.cbs # <<>>
        /\ \A i \in DOMAIN done.cbs :
              done.cbs[i] \in {<<JSBoolean(TRUE)>>, <<JSBoolean(FALSE)>>}
        /\ done.cbs[1] =
              <<JSBoolean(done.kind = "resolved" /\ done.path \in DOMAIN files)>>

C19_Witness ==
    /\ done.method = "exists"
    /\ done.kind = "rejected"
    /\ done.path \in DOMAIN files
    /\ done.cbs = <<(<<JSBoolean(FALSE)>>)>>

\* what the operation of a handled Request did, as the stub's caller is to
\* see it: the serialized error (the stub appends a stack to it), a proxy
\* of the opened handle, or the returned value
SameAsDirect(p, h) ==
    IF h.threw
    THEN /\ p.kind = "rejected"
         /\ \A k \in DOMAIN h.value.props \ {"stack"} :
               p.value.props[k] = h.value.props[k]
    ELSE /\ p.kind = "resolved"
         /\ IF h.handle
            THEN /\ p.value.props.path = h.value.path
                 /\ p.value.props.position = h.value.position
            ELSE p.value = h.value

\* C12: a call that a Response has settled ended with what its own operation
\* did when the dispatcher ran it directly on the attached file system; and
\* once an unlink made through the port has resolved, the file is gone from
\* the attached file system.
C12_RoundTrip ==
    \A c \in DOMAIN calls :
        calls[c].promise.by = "response" =>
            /\ \E h \in remote.handled :
                  h.request = c /\ SameAsDirect(calls[c].promise, h)
            /\ (posted[c].props.method = "unlink" /\ calls[c].promise.kind = "resolved")
                  => posted[c].props.args[1] \notin DOMAIN remote.fs

\* C20: the dispatcher has sent exactly one Response for every Request it
\* has handled and none for any other: with error = true and the serialized
\* error when the operation threw, else with the HandleDescriptor of the
\* opened handle or with the returned value.
C20_OneResponsePerRequest ==
    /\ \A h \in remote.handled :
          LET rs == {j \in DOMAIN remote.replies : remote.replies[j].for = h.request} IN
          /\ Cardinality(rs) = 1
          /\ \A j \in rs :
                LET m == remote.replies[j].message IN
                /\ Tagged(m)
                /\ m.props.id = posted[h.request].props.id
                /\ m.props.error = h.threw
                /\ IF ~h.threw /\ h.handle
                   THEN /\ isFileData(m.props.value) = "true"
                        /\ m.props.value.props.path = h.value.path
                        /\ m.props.value.props.position = h.value.position
                   ELSE m.props.value = h.value
    /\ \A j \in DOMAIN remote.replies :
          \E h \in remote.handled : h.request = remote.replies[j].for
    /\ \A g, h \in remote.handled : g.request = h.request => g = h

C20_Witness ==
    /\ \E h \in remote.handled : h.threw
    /\ \E h \in remote.handled : ~h.threw
    /\ Len(remote.replies) = 2

\* a Response that answers a Request posted on the channel of stub ch
AnswersOn(ch, m) ==
    \E c \in DOMAIN calls : calls[c].fs = ch /\ posted[c].props.id = m.props.id

\* C23: with two stubs on two channels, a Response received on one channel
\* settles no call that was issued on the other channel.
C23_NoCrossTalk ==
    [][last'.result # "none" =>
          \A ch \in Stubs, w \in BOOLEAN,
             m \in Responses(GeneratedIds, {FALSE}, {JSNumber(7)}) :
             (AnswersOn(ch, m) /\ Deliver(m, w)) =>
                 \A c \in DOMAIN calls :
                     calls'[c].promise # calls[c].promise => calls[c].fs = ch]_vars

\* C24: as long as a call is not settled, so that its Request is in flight
\* or its Response can still be delivered, the pending table holds a record
\* for its id.
C24_RecordPresentWhileUnsettled ==
    \A c \in DOMAIN calls : Pending(c) => ExecutorsHas(executors, calls[c].id)

\* C26: handling a Response for an id removes no record of another id, adds
\* none, and changes the outcome of no call but the one in that id's record.
C26_OnlyOwnRecordAndCall ==
    \A m \in Envelopes :
        LET out == handleResponse(executors, calls, m) IN
        /\ out.executors \subseteq executors
        /\ \A e \in executors : e.id # m.props.id => e \in out.executors
        /\ \A c \in DOMAIN calls :
              (~\E e \in executors : e.id = m.props.id /\ e.call = c)
                  => out.calls[c] = calls[c]

C26_Witness ==
    /\ last.result = "returned"
    /\ \E c, d \in DOMAIN calls :
          /\ calls[c].promise.by = "response"
          /\ Pending(d) /\ HasRecord(executors, d)

\* C27: the timeout callback of a call that a Response has already settled
\* changes no call's outcome, that call's included, and leaves the pending
\* table as it is.
C27_LateTimerChangesNothing ==
    [][\A c \in DOMAIN calls :
          (calls[c].promise.by = "response" /\ TimerFire(c)) =>
              /\ executors' = executors
              /\ \A d \in DOMAIN calls : calls'[d].promise = calls[d].promise]_vars

C27_Witness ==
    \E c, d \in DOMAIN calls :
        /\ c < d /\ calls[c].id = calls[d].id
        /\ calls[c].promise.by = "response" /\ calls[c].timer = "done"
        /\ Pending(d)

\* C28: unlink(path, cb) and writeFile(filename, data, cb) call cb exactly
\* once: without an error after the promise fulfils, with the error after it
\* rejects, whatever the operation and the callback do.
C28_CallbackExactlyOnce ==
    (done.api = "callback" /\ done.method \in {"unlink", "writeFile"}) =>
        /\ Len(done.cbs) = 1
        /\ done.cbs[1] = IF done.kind = "rejected" THEN <<done.value>>
                         ELSE IF done.method = "unlink" THEN <<>> ELSE <<JSNull>>

\* C25: metadata() of a ReadonlyFS returns the wrapped class's metadata with
\* readonly set to true and every other field as the wrapped class reports
\* it, and changes nothing in the file system.
C25_MetadataReadonly ==
    [][\A base \in BaseMetadata :
          metadata(base) =>
              /\ files' = files
              /\ DOMAIN done'.value.props = DOMAIN base
              /\ done'.value.props.readonly = TRUE
              /\ \A k \in DOMAIN base \ {"readonly"} :
                    done'.value.props[k] = base[k]]_vars

C25_Witness ==
    /\ done.method = "metadata"
    /\ done.data.props.readonly = FALSE
    /\ done.value.props.readonly = TRUE
    /\ done.value.props.name = "InMemory"
    /\ DOMAIN files = Paths

\* C29: the destroy option of a write stream calls its callback exactly
\* once, with and without an opened file handle.
C29_DestroyCallbackOnce ==
    (stream.kind = "write" /\ stream.destroyed) => stream.cbs = 1

\* C30: over the life of a stream the file is opened at most once, the
\* handle is closed at most once, and no read or write is issued on the
\* handle after a close.
C30_OpenOnceCloseOnce ==
    /\ stream.opens <= 1
    /\ stream.closes <= 1
    /\ ~stream.ioAfterClose

\* C21: close is terminal for a Remote File Handle Proxy: after a
\* successful close every further operation on the proxy fails locally and
\* puts no message on the channel.
C21_CloseIsTerminal ==
    [][proxy.state = "closed" =>
          /\ proxy'.sent = proxy.sent
          /\ proxy'.result = "EBADF"
          /\ proxy'.state = "closed"
          /\ proxy'.file = proxy.file
          /\ proxy'.remote = proxy.remote]_vars

C21_Witness ==
    /\ proxy.state = "closed"
    /\ proxy.op = "read"
    /\ proxy.result = "EBADF"
    /\ Len(proxy.sent) = 2
    /\ proxy.sent[2].method = "close"

\* C22: a Remote File Handle Proxy starts with the position of its
\* HandleDescriptor; after each successful read or write of n bytes its
\* cached position has advanced by n and equals the remote handle's
\* position; the operation started at the cached position and sent exactly
\* one message.
C22_CachedPosition ==
    [][/\ proxy.state = "none" =>
             proxy'.file.props.position = proxy'.descriptor.props.position
       /\ (proxy.state = "open" /\ proxy'.result = "fulfilled"
              /\ proxy'.op \in {"read", "write"}) =>
             /\ proxy'.file.props.position = proxy.file.props.position + proxy'.n
             /\ proxy'.file.props.position = proxy'.remote.position
             /\ proxy'.from = proxy.file.props.position
             /\ Len(proxy'.sent) = Len(proxy.sent) + 1
             /\ proxy'.sent[Len(proxy'.sent)].args[2] = proxy.file.props.position]_vars

C22_Witness ==
    /\ proxy.state = "open"
    /\ Len(proxy.sent) = 2
    /\ proxy.sent[1].method = "read" /\ proxy.sent[1].args[2] = 1
    /\ proxy.sent[2].method = "read" /\ proxy.sent[2].args[2] = 2
    /\ proxy.result = "fulfilled" /\ proxy.n = 1
    /\ proxy.file.props.position = 3
    /\ proxy.remote.position = 3

\* C31: a read stream starts at position 0; each read that returns is
\* issued at the position reached so far, pushes exactly the bytesRead
\* bytes it read and moves the position on by bytesRead, so that the
\* position is the sum of the bytesRead of the previous reads; a read of
\* zero bytes pushes end-of-stream and closes the handle; no other step
\* moves the position.
C31_SequentialReads ==
    [][/\ stream.kind = "none" => stream'.position = 0
       /\ stream.kind = "read" =>
             \/ \E openFails, closeFails \in BOOLEAN, bytesRead \in 0..StreamFileSize :
                   /\ streamRead(openFails, FALSE, bytesRead, closeFails)
                   /\ stream.handle \/ ~openFails
                   /\ stream'.at = stream.position
                   /\ stream'.position = stream.position + bytesRead
                   /\ stream'.pushed = (IF bytesRead = 0 THEN JSNull
                                        ELSE Uint8Array([k \in 1..bytesRead |-> 1]))
                   /\ bytesRead = 0 =>
                         (stream'.ended /\ stream'.closes > stream.closes)
                   /\ bytesRead # 0 =>
                         (~stream'.ended /\ stream'.closes = stream.closes)
             \/ /\ stream'.position = stream.position
                /\ stream'.pushed = stream.pushed]_vars

C31_Witness ==
    /\ stream.kind = "read" /\ stream.size = 2
    /\ stream.at = 2 /\ stream.position = 2
    /\ stream.pushed = JSNull /\ stream.ended
    /\ stream.opens = 1 /\ stream.closes = 1

\* C32: ftruncate(fd, len) with a negative len fails with EINVAL and issues
\* no truncate on the file; with a non-negative len it truncates the file
\* to len, and with len omitted or a callback in its place to 0; the
\* callback, given in either place, is first called with the result: no
\* argument on success, the error on failure.
C32_Ftruncate ==
    [][done'.method = "ftruncate" =>
          LET lenOrCB == done'.data.lenOrCB
              len == IF TypeOf(lenOrCB) = "number" THEN lenOrCB.v ELSE 0
              callback == IF TypeOf(lenOrCB) = "function" THEN lenOrCB
                          ELSE done'.data.cb
              path == done'.path
          IN  IF len < 0
              THEN /\ done'.kind = "threw"
                   /\ done'.value.props.code = "EINVAL"
                   /\ done'.data.issued = <<>>
                   /\ done'.cbs = <<>>
                   /\ files' = files
              ELSE /\ done'.data.issued = <<len>>
                   /\ \A p \in DOMAIN files \ {path} : files'[p] = files[p]
                   /\ IF done'.kind = "rejected"
                      THEN /\ files' = files
                           /\ done'.cbs = <<<<done'.value>>>>
                      ELSE /\ done'.kind = "resolved"
                           /\ Len(files'[path]) = len
                           /\ \A k \in 1..len :
                                 files'[path][k] =
                                     IF k <= Len(files[path]) THEN files[path][k] ELSE 0
                           /\ done'.cbs[1] = <<>>
                           /\ Len(done'.cbs) = IF callback.throws THEN 2 ELSE 1]_vars

C32_Witness ==
    /\ done.method = "ftruncate"
    /\ TypeOf(done.data.lenOrCB) = "function"
    /\ done.kind = "resolved"
    /\ done.data.issued = <<0>>
    /\ done.cbs = <<<<>>>>
    /\ \E p \in DOMAIN files : files[p] = <<65>>
    /\ files[done.path] = <<>>

====
